---- MODULE Spec2Model ----
(***************************************************************************)
(* AccessiBridge (src/app.py): a Flask application whose handlers map an   *)
(* HTTP request to one call of the Gemini client and/or one SQLite         *)
(* transaction on accessibility.db.                                        *)
(*                                                                         *)
(* State: the module-level gemini_model handle, the committed contents of  *)
(* the five tables, the write transaction that is in flight (SQLite admits *)
(* one writer at a time: a connection holds the write lock from its first  *)
(* INSERT/DELETE until commit or close), the connections that were opened  *)
(* and never closed, and the last request/response pair.                   *)
(*                                                                         *)
(* A writer that finds the lock taken waits; the handlers that write are   *)
(* therefore enabled only while the lock is free.  The 5 s busy timeout of *)
(* sqlite3.connect is a real-time bound and is not modelled.               *)
(*                                                                         *)
(* The handlers are checked in three groups, one specification each: the   *)
(* rows with a delete endpoint (Spec), the preferences and the             *)
(* conversation history (SpecPreferences), the uploads and the Gemini      *)
(* calls (SpecUpload).  Handlers of different groups write different       *)
(* tables, and share nothing but the write lock and gemini_model.          *)
(***************************************************************************)
EXTENDS Integers, Sequences, FiniteSets, TLC

(***************************************************************************)
(* Bounds of the model.                                                    *)
(***************************************************************************)
MaxRows == 2        \* rows the whole store may hold before inserts stop
MaxClock == 1       \* CURRENT_TIMESTAMP ranges over 0..MaxClock (seconds)
MaxUnclosed == 1    \* unclosed idle connections tracked before the gc runs

(***************************************************************************)
(* Characters and file names.  A file name is a sequence of characters;    *)
(* a character is a one-character string, except NonAscii, which stands    *)
(* for one code point outside ASCII that has no ASCII decomposition.       *)
(***************************************************************************)
NonAscii == "U+4E2D"

UpperCase == <<"A","B","C","D","E","F","G","H","I","J","K","L","M",
               "N","O","P","Q","R","S","T","U","V","W","X","Y","Z">>

LowerCase == <<"a","b","c","d","e","f","g","h","i","j","k","l","m",
               "n","o","p","q","r","s","t","u","v","w","x","y","z">>

Digits == {"0","1","2","3","4","5","6","7","8","9"}

Range(s) == {s[i] : i \in DOMAIN s}

RECURSIVE Join(_)
Join(s) == IF s = <<>> THEN "" ELSE Head(s) \o Join(Tail(s))

\* str.lower() on one character
LowerChar(c) ==
    IF \E i \in DOMAIN UpperCase : UpperCase[i] = c
    THEN LowerCase[CHOOSE i \in DOMAIN UpperCase : UpperCase[i] = c]
    ELSE c

\* str.lower()
Lower(s) == [i \in DOMAIN s |-> LowerChar(s[i])]

\* index of the last '.' of s, 0 if there is none
LastDot(s) ==
    IF \E i \in DOMAIN s : s[i] = "."
    THEN CHOOSE i \in DOMAIN s : s[i] = "." /\ \A j \in DOMAIN s : j > i => s[j] # "."
    ELSE 0

\* '.' in filename
HasDot(s) == LastDot(s) # 0

\* filename.rsplit('.', 1)[1]
RSplitExt(s) == SubSeq(s, LastDot(s) + 1, Len(s))

ALLOWED_EXTENSIONS == {"png", "jpg", "jpeg", "gif", "webp", "pdf", "txt", "doc", "docx"}

allowed_file(filename) ==
    HasDot(filename) /\ Join(Lower(RSplitExt(filename))) \in ALLOWED_EXTENSIONS

(***************************************************************************)
(* werkzeug.utils.secure_filename, as the handlers call it:                *)
(*   NFKD-normalise and drop what does not encode as ASCII; replace the    *)
(*   path separator by a space; "_".join(filename.split()); delete every   *)
(*   character outside [A-Za-z0-9_.-]; strip "._" from both ends.          *)
(***************************************************************************)
IsAsciiChar(c) == c # NonAscii

FilenameChars == Range(UpperCase) \cup Range(LowerCase) \cup Digits \cup {"_", ".", "-"}

ReplaceSep(s) == [i \in DOMAIN s |-> IF s[i] = "/" THEN " " ELSE s[i]]

RECURSIVE LStrip(_, _)
LStrip(s, cs) == IF s # <<>> /\ Head(s) \in cs THEN LStrip(Tail(s), cs) ELSE s

RECURSIVE RStrip(_, _)
RStrip(s, cs) ==
    IF s # <<>> /\ s[Len(s)] \in cs THEN RStrip(SubSeq(s, 1, Len(s) - 1), cs) ELSE s

Strip(s, cs) == RStrip(LStrip(s, cs), cs)

\* "_".join(s.split()): runs of white space become one "_", none at the ends
RECURSIVE JoinWords(_)
JoinWords(s) ==
    IF s = <<>> THEN <<>>
    ELSE IF Head(s) = " "
         THEN LET rest == LStrip(s, {" "})
              IN IF rest = <<>> THEN <<>> ELSE <<"_">> \o JoinWords(rest)
         ELSE <<Head(s)>> \o JoinWords(Tail(s))

SplitJoin(s) == JoinWords(LStrip(s, {" "}))

secure_filename(filename) ==
    LET ascii == SelectSeq(filename, IsAsciiChar)
        joined == SplitJoin(ReplaceSep(ascii))
        kept == SelectSeq(joined, LAMBDA c : c \in FilenameChars)
    IN Strip(kept, {".", "_"})

\* ext = filename.rsplit('.', 1)[1].lower() if '.' in filename else ''
SafeExt(filename) ==
    LET name == secure_filename(filename)
    IN IF HasDot(name) THEN Join(Lower(RSplitExt(name))) ELSE ""

\* the extension of the name as uploaded, as allowed_file reads it
RawExt(filename) == IF HasDot(filename) THEN Join(Lower(RSplitExt(filename))) ELSE ""

(***************************************************************************)
(* bytes.decode('utf-8') and bytes.decode('latin-1').  A text is the       *)
(* sequence of its code points.                                            *)
(***************************************************************************)
IsCont(b) == b >= 128 /\ b <= 191

\* number of bytes of the well-formed UTF-8 sequence that starts s, 0 if none
Utf8Len(s) ==
    LET b == s[1]
        c(i) == IF Len(s) >= i THEN s[i] ELSE 0
    IN IF b < 128 THEN 1
       ELSE IF b >= 194 /\ b <= 223 /\ IsCont(c(2)) THEN 2
       ELSE IF b = 224 /\ c(2) >= 160 /\ c(2) <= 191 /\ IsCont(c(3)) THEN 3
       ELSE IF b = 237 /\ c(2) >= 128 /\ c(2) <= 159 /\ IsCont(c(3)) THEN 3
       ELSE IF b >= 225 /\ b <= 239 /\ b # 237 /\ IsCont(c(2)) /\ IsCont(c(3)) THEN 3
       ELSE IF b = 240 /\ c(2) >= 144 /\ c(2) <= 191 /\ IsCont(c(3)) /\ IsCont(c(4)) THEN 4
       ELSE IF b >= 241 /\ b <= 243 /\ IsCont(c(2)) /\ IsCont(c(3)) /\ IsCont(c(4)) THEN 4
       ELSE IF b = 244 /\ c(2) >= 128 /\ c(2) <= 143 /\ IsCont(c(3)) /\ IsCont(c(4)) THEN 4
       ELSE 0

Utf8Point(s, n) ==
    IF n = 1 THEN s[1]
    ELSE IF n = 2 THEN (s[1] - 192) * 64 + (s[2] - 128)
    ELSE IF n = 3 THEN (s[1] - 224) * 4096 + (s[2] - 128) * 64 + (s[3] - 128)
    ELSE (s[1] - 240) * 262144 + (s[2] - 128) * 4096 + (s[3] - 128) * 64 + (s[4] - 128)

RECURSIVE Utf8Valid(_)
Utf8Valid(s) ==
    IF s = <<>> THEN TRUE
    ELSE LET n == Utf8Len(s)
         IN n # 0 /\ Utf8Valid(SubSeq(s, n + 1, Len(s)))

RECURSIVE Utf8Decode(_)
Utf8Decode(s) ==
    IF s = <<>> THEN <<>>
    ELSE LET n == Utf8Len(s)
         IN <<Utf8Point(s, n)>> \o Utf8Decode(SubSeq(s, n + 1, Len(s)))

Latin1Decode(s) == s

\* try: content.decode('utf-8')  except: content.decode('latin-1')
DecodeText(content) == IF Utf8Valid(content) THEN Utf8Decode(content) ELSE Latin1Decode(content)

(***************************************************************************)
(* JSON values of a request body, Python's str() of them, and the value a  *)
(* parameter binds to in a TEXT column.                                    *)
(***************************************************************************)
JStr(x) == [t |-> "str", s |-> x, n |-> 0]

JNum(k) == [t |-> "num", s |-> "", n |-> k]

JNull == [t |-> "null", s |-> "", n |-> 0]

\* str(value)
Str(v) == IF v.t = "str" THEN v.s ELSE IF v.t = "num" THEN ToString(v.n) ELSE "None"

SqlText(x) == [null |-> FALSE, s |-> x]

SqlNull == [null |-> TRUE, s |-> ""]

Bind(v) == IF v.t = "null" THEN SqlNull ELSE SqlText(Str(v))

\* request.get_json(): no body, or a JSON object
NoBody == [kind |-> "none", obj |-> <<>>]

Body(o) == [kind |-> "object", obj |-> o]

\* not data
Falsy(data) == data.kind = "none" \/ DOMAIN data.obj = {}

\* 'k' in data
Has(data, k) == k \in DOMAIN data.obj

\* data.get(k, default)
Get(data, k, default) == IF Has(data, k) THEN data.obj[k] ELSE default

(***************************************************************************)
(* Requests.                                                               *)
(***************************************************************************)
NoFile == [present |-> FALSE, filename |-> <<>>, content |-> <<>>]

File(name, bytes) == [present |-> TRUE, filename |-> name, content |-> bytes]

NoMode == [present |-> FALSE, value |-> ""]

Mode(m) == [present |-> TRUE, value |-> m]

Request(op, file, mode, data, table, id) ==
    [op |-> op, file |-> file, mode |-> mode, data |-> data, table |-> table, id |-> id]

NoRequest == Request("none", NoFile, NoMode, NoBody, "", 0)

(***************************************************************************)
(* The store: the committed rows of each table in rowid order, and the     *)
(* AUTOINCREMENT counters of sqlite_sequence.                              *)
(***************************************************************************)
Tables == {"image_descriptions", "transcriptions", "user_preferences",
           "saved_texts", "conversation_history"}

MaxId == 2          \* AUTOINCREMENT counters stop at MaxId

SelectLimit == 50

EmptyDb ==
    [image_descriptions |-> <<>>, transcriptions |-> <<>>, user_preferences |-> <<>>,
     saved_texts |-> <<>>, conversation_history |-> <<>>,
     seq |-> [t \in Tables |-> 0]]

TotalRows(d) ==
    Len(d.image_descriptions) + Len(d.transcriptions) + Len(d.user_preferences)
    + Len(d.saved_texts) + Len(d.conversation_history)

Ids(rows) == {rows[i].id : i \in DOMAIN rows}

\* INSERT INTO table ...: the row takes the next AUTOINCREMENT id
InsertRow(d, table, row) ==
    [d EXCEPT ![table] = Append(@, row), !.seq[table] = @ + 1]

NextId(d, table) == d.seq[table] + 1

DeleteRowUpTo(d, table, id) ==
    [d EXCEPT ![table] = SelectSeq(@, LAMBDA r : r.id > id)]

\* DELETE FROM table WHERE id = ?
DeleteRow(d, table, id) ==
    [d EXCEPT ![table] = SelectSeq(@, LAMBDA r : r.id # id)]

\* INSERT OR REPLACE INTO user_preferences: the row that holds the key is
\* deleted (UNIQUE conflict) and a new row is inserted
UpsertPreferenceInsertOnly(d, key, value, now) ==
    InsertRow(d, "user_preferences",
              [id |-> NextId(d, "user_preferences"), preference_key |-> key,
               preference_value |-> value, updated_at |-> now])

UpsertPreference(d, key, value, now) ==
    LET kept == [d EXCEPT !.user_preferences =
                     SelectSeq(@, LAMBDA r : r.preference_key # key)]
    IN InsertRow(kept, "user_preferences",
                 [id |-> NextId(d, "user_preferences"), preference_key |-> key,
                  preference_value |-> value, updated_at |-> now])

\* for key, value in data.items(): db.execute(INSERT OR REPLACE ...)
RECURSIVE UpsertAll(_, _, _, _)
UpsertAll(d, obj, keys, now) ==
    IF keys = {} THEN d
    ELSE LET k == CHOOSE x \in keys : TRUE
         IN UpsertAll(UpsertPreference(d, k, Str(obj[k]), now), obj, keys \ {k}, now)

\* the orders ORDER BY created_at DESC may return: rows of equal created_at
\* come in an order SQL leaves open
RowOrders(rows) ==
    {p \in [DOMAIN rows -> DOMAIN rows] : \A i, j \in DOMAIN rows : i # j => p[i] # p[j]}

OrderByCreatedDesc(rows) ==
    {[i \in DOMAIN rows |-> rows[p[i]]] : p \in
        {q \in RowOrders(rows) :
            \A i, j \in DOMAIN rows : i < j => rows[q[i]].created_at >= rows[q[j]].created_at}}

Limit(rows, n) == SubSeq(rows, 1, IF Len(rows) < n THEN Len(rows) ELSE n)

(***************************************************************************)
(* Responses.  A response carries the status, the JSON (or template)       *)
(* fields, and what the handler did on the way: connections opened and     *)
(* closed, the prompt of the Gemini call, rows written.                    *)
(***************************************************************************)
NoResponse ==
    [req |-> NoRequest, status |-> 0, success |-> FALSE, error |-> "",
     mode |-> "", method |-> "", text |-> <<>>, generated |-> "",
     prefs |-> <<>>, descriptions |-> <<>>, transcriptions |-> <<>>, saved_texts |-> <<>>,
     opened |-> 0, closed |-> 0, ai_calls |-> 0, prompt |-> "", statements |-> 0,
     inserted |-> 0, deleted |-> 0]

ErrorResponse(req, status, message) ==
    [NoResponse EXCEPT !.req = req, !.status = status, !.error = message]

SuccessResponse(req) ==
    [NoResponse EXCEPT !.req = req, !.status = 200, !.success = TRUE]

NoTxn == [active |-> FALSE, pending |-> EmptyDb, resp |-> NoResponse]

VARIABLES
    gemini_model,   \* TRUE iff init_gemini configured the client
    db,             \* committed contents of accessibility.db
    clock,          \* CURRENT_TIMESTAMP, in seconds
    txn,            \* the write transaction in flight, and the response it ends in
    unclosed,       \* connections no handler closed: idle ones, and one holding the write lock
    saved,          \* history: the value of the last committed save of each key
    last            \* the response produced last

vars == <<gemini_model, db, clock, txn, unclosed, saved, last>>

\* init_gemini() returns True iff the key is set and the client configures;
\* init_db() creates the empty tables
Init ==
    /\ gemini_model \in BOOLEAN
    /\ db = EmptyDb
    /\ clock = 0
    /\ txn = NoTxn
    /\ unclosed = [idle |-> 0, writer |-> FALSE]
    /\ saved = <<>>
    /\ last = NoResponse

LockFree == ~txn.active /\ ~unclosed.writer

\* the response in last is handed to the WSGI server before anything else
\* is done; nothing reads it afterwards
Idle == last = NoResponse

\* a handler returns without having begun a transaction
Respond(resp) ==
    /\ Idle
    /\ last' = resp
    /\ UNCHANGED <<gemini_model, db, clock, txn, unclosed, saved>>

WithinBounds(d) == TotalRows(d) <= MaxRows /\ \A t \in Tables : d.seq[t] <= MaxId

\* get_db() and the db.execute() calls: the connection takes the write lock
Begin(pending, resp) ==
    /\ Idle
    /\ LockFree
    /\ WithinBounds(pending)
    /\ txn' = [active |-> TRUE, pending |-> pending, resp |-> resp]
    /\ UNCHANGED <<gemini_model, db, clock, unclosed, saved, last>>

\* db.execute() raised inside try: the except clause returns 500 and the
\* connection, its transaction open, is never closed
FailedStatement(req, message) ==
    /\ Idle
    /\ LockFree
    /\ unclosed' = [unclosed EXCEPT !.writer = TRUE]
    /\ last' = [ErrorResponse(req, 500, message) EXCEPT !.opened = 1, !.statements = 1]
    /\ UNCHANGED <<gemini_model, db, clock, txn, saved>>

(***************************************************************************)
(* The Gemini call: generate_content returns a text or raises.             *)
(***************************************************************************)
Generated(x) == [ok |-> TRUE, text |-> x, error |-> ""]

Raised(x) == [ok |-> FALSE, text |-> "", error |-> x]

PromptQuick == "Describe this image in one clear, concise sentence. Focus on the main subject."

PromptDetailed == "Provide a detailed, accessible description of this image for someone who cannot see it. Include: ..."

PromptNavigation == "Describe this image as if helping a blind person navigate or understand a physical space or document. Include: ..."

PromptDeafblind == "Describe this image in a simple, structured format for someone who is deafblind: ..."

PromptExtract == "Extract all text from this document. Preserve the structure and formatting as much as possible. ..."

PromptSimplify == "Simplify the following text for someone who is deafblind. Use: ... Text to simplify: "

\* request.form.get('mode', 'detailed')
FormMode(m) == IF m.present THEN m.value ELSE "detailed"

\* the if/elif/else chain over mode
PromptForFallbackDetailed(mode) ==
    IF mode = "quick" THEN PromptQuick
    ELSE IF mode = "navigation" THEN PromptNavigation
    ELSE IF mode = "deafblind" THEN PromptDeafblind
    ELSE PromptDetailed

PromptFor(mode) ==
    IF mode = "quick" THEN PromptQuick
    ELSE IF mode = "detailed" THEN PromptDetailed
    ELSE IF mode = "navigation" THEN PromptNavigation
    ELSE PromptDeafblind

(***************************************************************************)
(* POST /api/describe-image                                                *)
(***************************************************************************)
api_describe_image(files, modes, outcomes) ==
    \E file \in files, m \in modes, ai \in outcomes :
        LET req == Request("describe-image", file, m, NoBody, "", 0)
            mode == FormMode(m)
            prompt == PromptFor(mode)
            called == [NoResponse EXCEPT !.req = req, !.ai_calls = 1, !.prompt = prompt]
            row == [id |-> NextId(db, "image_descriptions"),
                    filename |-> Join(secure_filename(file.filename)),
                    description |-> ai.text, created_at |-> clock]
        IN IF ~gemini_model
           THEN Respond(ErrorResponse(req, 400, "Gemini API not configured"))
           ELSE IF ~file.present
           THEN Respond(ErrorResponse(req, 400, "No image provided"))
           ELSE IF file.filename = <<>>
           THEN Respond(ErrorResponse(req, 400, "No image selected"))
           ELSE IF ~allowed_file(file.filename)
           THEN Respond(ErrorResponse(req, 400, "Invalid file type"))
           ELSE IF ~ai.ok
           THEN Respond([called EXCEPT !.status = 500, !.error = ai.error])
           ELSE Begin(InsertRow(db, "image_descriptions", row),
                      [called EXCEPT !.status = 200, !.success = TRUE, !.generated = ai.text,
                                     !.mode = mode, !.opened = 1, !.statements = 1,
                                     !.inserted = 1])

(***************************************************************************)
(* POST /api/save-transcription                                            *)
(***************************************************************************)
TextMissing(data) == Falsy(data) \/ ~Has(data, "text")

api_save_transcription(bodies) ==
    \E data \in bodies :
        LET req == Request("save-transcription", NoFile, NoMode, data, "", 0)
            text == Bind(data.obj["text"])
            source == Bind(Get(data, "source", JStr("speech")))
            row == [id |-> NextId(db, "transcriptions"), text |-> text.s,
                    source |-> source, created_at |-> clock]
        IN IF TextMissing(data)
           THEN Respond(ErrorResponse(req, 400, "No text provided"))
           ELSE IF text.null
           THEN FailedStatement(req, "NOT NULL constraint failed: transcriptions.text")
           ELSE Begin(InsertRow(db, "transcriptions", row),
                      [SuccessResponse(req) EXCEPT !.opened = 1, !.statements = 1,
                                                   !.inserted = 1])

(***************************************************************************)
(* POST /api/save-text                                                     *)
(***************************************************************************)
ContentMissing(data) == Falsy(data) \/ ~Has(data, "content")

api_save_text(bodies) ==
    \E data \in bodies :
        LET req == Request("save-text", NoFile, NoMode, data, "", 0)
            content == Bind(data.obj["content"])
            row == [id |-> NextId(db, "saved_texts"),
                    title |-> Bind(Get(data, "title", JStr("Untitled"))),
                    content |-> content.s,
                    category |-> Bind(Get(data, "category", JStr("general"))),
                    created_at |-> clock]
        IN IF ContentMissing(data)
           THEN Respond(ErrorResponse(req, 400, "No content provided"))
           ELSE IF content.null
           THEN FailedStatement(req, "NOT NULL constraint failed: saved_texts.content")
           ELSE Begin(InsertRow(db, "saved_texts", row),
                      [SuccessResponse(req) EXCEPT !.opened = 1, !.statements = 1,
                                                   !.inserted = 1])

(***************************************************************************)
(* POST /api/extract-document                                              *)
(***************************************************************************)
api_extract_document(files, outcomes) ==
    \E file \in files, ai \in outcomes :
        LET req == Request("extract-document", file, NoMode, NoBody, "", 0)
            ext == SafeExt(file.filename)
            called == [NoResponse EXCEPT !.req = req, !.ai_calls = 1, !.prompt = PromptExtract]
        IN IF ~file.present
           THEN Respond(ErrorResponse(req, 400, "No document provided"))
           ELSE IF file.filename = <<>>
           THEN Respond(ErrorResponse(req, 400, "No document selected"))
           ELSE IF ext = "txt"
           THEN Respond([SuccessResponse(req) EXCEPT !.text = DecodeText(file.content),
                                                     !.method = "direct"])
           ELSE IF gemini_model /\ ext \in {"pdf", "png", "jpg", "jpeg"}
           THEN IF ai.ok
                THEN Respond([called EXCEPT !.status = 200, !.success = TRUE,
                                            !.generated = ai.text, !.method = "gemini"])
                ELSE Respond([called EXCEPT !.status = 500, !.error = ai.error])
           ELSE Respond(ErrorResponse(req, 400, "Unsupported file type or Gemini not available"))

(***************************************************************************)
(* POST /api/conversation                                                  *)
(***************************************************************************)
api_conversation(bodies) ==
    \E data \in bodies :
        LET req == Request("conversation", NoFile, NoMode, data, "", 0)
            session_id == Bind(Get(data, "session_id", JStr("default")))
            speaker == Bind(Get(data, "speaker", JStr("unknown")))
            message == Bind(Get(data, "message", JStr("")))
            row == [id |-> NextId(db, "conversation_history"), session_id |-> session_id.s,
                    speaker |-> speaker.s, message |-> message.s,
                    message_type |-> Bind(Get(data, "message_type", JStr("text"))),
                    created_at |-> clock]
        IN IF Falsy(data)
           THEN Respond(ErrorResponse(req, 400, "No data provided"))
           ELSE IF session_id.null \/ speaker.null \/ message.null
           THEN FailedStatement(req, "NOT NULL constraint failed: conversation_history")
           ELSE Begin(InsertRow(db, "conversation_history", row),
                      [SuccessResponse(req) EXCEPT !.opened = 1, !.statements = 1,
                                                   !.inserted = 1])

(***************************************************************************)
(* POST /api/simplify-text                                                 *)
(***************************************************************************)
api_simplify_text(bodies, outcomes) ==
    \E data \in bodies, ai \in outcomes :
        LET req == Request("simplify-text", NoFile, NoMode, data, "", 0)
            prompt == PromptSimplify \o Str(data.obj["text"])
            called == [NoResponse EXCEPT !.req = req, !.ai_calls = 1, !.prompt = prompt]
        IN IF ~gemini_model
           THEN Respond(ErrorResponse(req, 400, "Gemini API not available"))
           ELSE IF TextMissing(data)
           THEN Respond(ErrorResponse(req, 400, "No text provided"))
           ELSE IF ai.ok
           THEN Respond([called EXCEPT !.status = 200, !.success = TRUE, !.generated = ai.text])
           ELSE Respond([called EXCEPT !.status = 500, !.error = ai.error])

(***************************************************************************)
(* GET and POST /api/preferences                                           *)
(***************************************************************************)
\* {row['preference_key']: row['preference_value'] for row in prefs}
PrefsDict(rows) ==
    [k \in {rows[i].preference_key : i \in DOMAIN rows} |->
        LET i == CHOOSE i \in DOMAIN rows :
                     /\ rows[i].preference_key = k
                     /\ \A j \in DOMAIN rows : rows[j].preference_key = k => j <= i
        IN rows[i].preference_value]

api_preferences_GET ==
    LET req == Request("preferences-get", NoFile, NoMode, NoBody, "", 0)
    IN Respond([SuccessResponse(req) EXCEPT !.prefs = PrefsDict(db.user_preferences),
                                            !.opened = 1, !.statements = 1, !.closed = 1])

api_preferences_POST(bodies) ==
    \E data \in bodies :
        LET req == Request("preferences-post", NoFile, NoMode, data, "", 0)
            n == Cardinality(DOMAIN data.obj)
        IN IF Falsy(data)
           THEN \* return without db.close()
                /\ Idle
                /\ unclosed.idle < MaxUnclosed
                /\ unclosed' = [unclosed EXCEPT !.idle = @ + 1]
                /\ last' = [ErrorResponse(req, 400, "No data provided") EXCEPT !.opened = 1]
                /\ UNCHANGED <<gemini_model, db, clock, txn, saved>>
           ELSE Begin(UpsertAll(db, data.obj, DOMAIN data.obj, clock),
                      [SuccessResponse(req) EXCEPT !.opened = 1, !.statements = n,
                                                   !.inserted = n])

(***************************************************************************)
(* DELETE /api/delete/<table>/<int:id>                                     *)
(***************************************************************************)
allowed_tables_and_history ==
    {"image_descriptions", "transcriptions", "saved_texts", "conversation_history"}

allowed_tables == {"image_descriptions", "transcriptions", "saved_texts"}

api_delete_item(tables, ids) ==
    \E table \in tables, id \in ids :
        LET req == Request("delete", NoFile, NoMode, NoBody, table, id)
        IN IF table \notin allowed_tables
           THEN Respond(ErrorResponse(req, 400, "Invalid table"))
           ELSE Begin(DeleteRow(db, table, id),
                      [SuccessResponse(req) EXCEPT
                          !.opened = 1, !.statements = 1,
                          !.deleted = Len(db[table]) - Len(DeleteRow(db, table, id)[table])])

(***************************************************************************)
(* GET /saved-content                                                      *)
(***************************************************************************)
saved_content ==
    \E d \in OrderByCreatedDesc(db.image_descriptions),
       t \in OrderByCreatedDesc(db.transcriptions),
       s \in OrderByCreatedDesc(db.saved_texts) :
        LET req == Request("saved-content", NoFile, NoMode, NoBody, "", 0)
        IN Respond([SuccessResponse(req) EXCEPT
                        !.descriptions = Limit(d, SelectLimit),
                        !.transcriptions = Limit(t, SelectLimit),
                        !.saved_texts = Limit(s, SelectLimit),
                        !.opened = 1, !.statements = 3, !.closed = 1])

(***************************************************************************)
(* db.commit(); db.close(); return jsonify(...): the tail of every handler *)
(* that writes.                                                            *)
(***************************************************************************)
SavedAfter(old, obj) ==
    [k \in DOMAIN old \cup DOMAIN obj |-> IF k \in DOMAIN obj THEN Str(obj[k]) ELSE old[k]]

commit_close ==
    /\ Idle
    /\ txn.active
    /\ db' = txn.pending
    /\ txn' = NoTxn
    /\ last' = [txn.resp EXCEPT !.closed = 1]
    /\ saved' = IF txn.resp.req.op = "preferences-post"
                THEN SavedAfter(saved, txn.resp.req.data.obj)
                ELSE saved
    /\ UNCHANGED <<gemini_model, clock, unclosed>>

\* the garbage collector finalizes a connection no handler closed; an open
\* transaction is rolled back and its lock released
connection_dealloc ==
    /\ Idle
    /\ \/ /\ unclosed.idle > 0
          /\ unclosed' = [unclosed EXCEPT !.idle = @ - 1]
       \/ /\ unclosed.writer
          /\ unclosed' = [unclosed EXCEPT !.writer = FALSE]
    /\ UNCHANGED <<gemini_model, db, clock, txn, saved, last>>

\* a second passes
\* the WSGI server sends the response
send_response ==
    /\ ~Idle
    /\ last' = NoResponse
    /\ UNCHANGED <<gemini_model, db, clock, txn, unclosed, saved>>

Tick ==
    /\ Idle
    /\ clock < MaxClock
    /\ clock' = clock + 1
    /\ UNCHANGED <<gemini_model, db, txn, unclosed, saved, last>>

(***************************************************************************)
(* Request inputs.                                                         *)
(***************************************************************************)
Ascii == <<104, 105>>

Outcomes == {Generated("generated text"), Raised("upstream error")}

FilesFew == {File(<<"a", ".", "p", "n", "g">>, Ascii),
             File(<<"v", "i", "r", "u", "s", ".", "e", "x", "e">>, Ascii)}

ModesFew == {NoMode}

TextBodies ==
    {NoBody, Body(<<>>), Body([text |-> JStr("hello")]), Body([text |-> JStr("")]),
     Body([text |-> JNull]), Body([source |-> JStr("typed")]),
     Body([text |-> JStr("hello"), source |-> JStr("typed")])}

ContentBodies ==
    {NoBody, Body([content |-> JStr("note")]), Body([content |-> JStr("")]),
     Body([content |-> JNull]), Body([title |-> JStr("T")])}

MessageBodies == {NoBody, Body([message |-> JStr("hi")]), Body([message |-> JNull])}

PreferenceBodies ==
    {NoBody, Body(<<>>), Body([theme |-> JStr("dark")]), Body([theme |-> JStr("light")]),
     Body([theme |-> JStr("dark"), font |-> JNum(12)])}

DeleteTables == allowed_tables \cup {"users", "user_preferences", "conversation_history"}

DeleteIds == 1 .. MaxId

Utf8Bytes == <<195, 169>>

Latin1Bytes == <<233>>

FilesMany ==
    {NoFile,
     File(<<>>, Ascii),
     File(<<"v", "i", "r", "u", "s", ".", "e", "x", "e">>, Ascii),
     File(<<"r", "e", "a", "d", "m", "e">>, Ascii),
     File(<<"a", ".", "t", "x", "t">>, Ascii),
     File(<<"a", ".", "t", "x", "t">>, Utf8Bytes),
     File(<<"a", ".", "t", "x", "t">>, Latin1Bytes),
     File(<<"N", "O", "T", "E", ".", "T", "X", "T">>, Ascii),
     File(<<NonAscii, ".", "t", "x", "t">>, Ascii),
     File(<<"a", ".", "t", "x", "t", NonAscii>>, Ascii),
     File(<<"a", ".", "p", "d", "f">>, Ascii),
     File(<<"a", ".", "p", "d", "f", "!">>, Ascii),
     File(<<"a", " ", "b", ".", "p", "n", "g">>, Ascii)}

ModesMany ==
    {NoMode, Mode("quick"), Mode("detailed"), Mode("navigation"), Mode("deafblind"),
     Mode("poetic"), Mode("")}

(***************************************************************************)
(* The handlers that read and write transcriptions, saved texts,           *)
(* conversation turns and image descriptions, with the delete endpoint.    *)
(***************************************************************************)
Next ==
    \/ api_save_transcription(TextBodies)
    \/ api_save_text(ContentBodies)
    \/ api_delete_item(DeleteTables, DeleteIds)
    \/ saved_content
    \/ commit_close
    \/ connection_dealloc
    \/ send_response
    \/ Tick

Spec == Init /\ [][Next]_vars

(***************************************************************************)
(* The preference endpoints.                                               *)
(***************************************************************************)
NextPreferences ==
    \/ api_preferences_GET
    \/ api_preferences_POST(PreferenceBodies)
    \/ api_conversation(MessageBodies)
    \/ commit_close
    \/ connection_dealloc
    \/ send_response
    \/ Tick

SpecPreferences == Init /\ [][NextPreferences]_vars

(***************************************************************************)
(* The upload endpoints and the other caller of the Gemini client.         *)
(***************************************************************************)
NextUpload ==
    \/ api_describe_image(FilesMany, ModesFew, Outcomes)
    \/ api_describe_image(FilesFew, ModesMany, Outcomes)
    \/ api_extract_document(FilesMany, Outcomes)
    \/ api_simplify_text(TextBodies, Outcomes)
    \/ commit_close
    \/ send_response

SpecUpload == Init /\ [][NextUpload]_vars

(***************************************************************************)
(* Properties.                                                             *)
(***************************************************************************)
PreferenceRows(k) ==
    {i \in DOMAIN db.user_preferences : db.user_preferences[i].preference_key = k}

\* C1: user_preferences holds exactly one row for every key ever saved and
\* no other row; the row's value is str() of the value of the last committed
\* save of the key; GET /api/preferences returns exactly this mapping.
C1_LastWriterWins ==
    /\ {db.user_preferences[i].preference_key : i \in DOMAIN db.user_preferences}
           = DOMAIN saved
    /\ \A k \in DOMAIN saved :
           /\ Cardinality(PreferenceRows(k)) = 1
           /\ \A i \in PreferenceRows(k) : db.user_preferences[i].preference_value = saved[k]
    /\ last.req.op = "preferences-get" =>
           /\ last.status = 200
           /\ DOMAIN last.prefs = DOMAIN saved
           /\ \A k \in DOMAIN saved : last.prefs[k] = saved[k]

\* "theme" was saved twice, and GET returns the value committed last
C1_Witness ==
    /\ last.req.op = "preferences-get"
    /\ DOMAIN last.prefs = {"theme"}
    /\ last.prefs["theme"] = "light"
    /\ db.seq["user_preferences"] >= 2
    /\ Len(db.user_preferences) = 1

DeletableTables == {"image_descriptions", "transcriptions", "saved_texts"}

\* C2: a DELETE whose table is not image_descriptions, transcriptions or
\* saved_texts is answered 400 without opening a connection or executing a
\* statement, and leaves the store, the transaction in flight and the
\* connections as they were.
C2_DisallowedTable ==
    [][(Idle /\ last'.req.op = "delete" /\ last'.req.table \notin DeletableTables) =>
          /\ last'.status = 400
          /\ ~last'.success
          /\ last'.opened = 0
          /\ last'.statements = 0
          /\ db' = db
          /\ txn' = txn
          /\ unclosed' = unclosed]_vars

C2_Witness ==
    /\ last.req.op = "delete"
    /\ last.req.table = "conversation_history"
    /\ last.status = 400
    /\ TotalRows(db) > 0

ModeTemplate(m) ==
    IF ~m.present THEN PromptDetailed
    ELSE IF m.value = "quick" THEN PromptQuick
    ELSE IF m.value = "detailed" THEN PromptDetailed
    ELSE IF m.value = "navigation" THEN PromptNavigation
    ELSE PromptDeafblind

\* C4: the templates of quick, detailed, navigation and deafblind are non-empty
\* and pairwise different; describe-image sends the template of the mode, the
\* detailed one when mode is absent and the deafblind one for any other
\* value, and a success response echoes the mode received.
C4_ModeTemplates ==
    /\ Cardinality({PromptQuick, PromptDetailed, PromptNavigation, PromptDeafblind}) = 4
    /\ "" \notin {PromptQuick, PromptDetailed, PromptNavigation, PromptDeafblind}
    /\ (last.req.op = "describe-image" /\ last.ai_calls > 0) =>
           last.prompt = ModeTemplate(last.req.mode)
    /\ (last.req.op = "describe-image" /\ last.status = 200 /\ last.req.mode.present) =>
           last.mode = last.req.mode.value

C4_Witness ==
    /\ last.req.op = "describe-image"
    /\ last.status = 200
    /\ last.req.mode = Mode("poetic")
    /\ last.prompt = PromptDeafblind
    /\ last.mode = "poetic"

\* C5: an extract-document request whose file name has the extension txt, in
\* any case, makes no Gemini call and succeeds with method "direct" and the
\* bytes decoded as UTF-8, or as Latin-1 when they are not UTF-8.
C5_TxtIsDirect ==
    (last.req.op = "extract-document" /\ last.req.file.present
        /\ RawExt(last.req.file.filename) = "txt") =>
        /\ last.ai_calls = 0
        /\ last.status = 200
        /\ last.method = "direct"
        /\ last.text = DecodeText(last.req.file.content)

UploadExtensions == {"png", "jpg", "jpeg", "gif", "webp", "pdf", "txt", "doc", "docx"}

\* C6: describe-image and extract-document answer 400, call Gemini never and
\* write no row, for an upload whose file name is empty, has no extension or
\* has an extension outside the allow-list.
C6_RejectedBeforeProcessing ==
    (last.req.op \in {"describe-image", "extract-document"} /\ last.req.file.present
        /\ RawExt(last.req.file.filename) \notin UploadExtensions) =>
        /\ last.status = 400
        /\ last.ai_calls = 0
        /\ last.inserted = 0

\* C7: the recent-transcriptions query returns the row of the latest save
\* without source, which has source "speech", ahead of every row inserted
\* before it.
C7_NewestFirst ==
    (last.req.op = "saved-content" /\ db.transcriptions # <<>>
        /\ db.transcriptions[Len(db.transcriptions)].source = SqlText("speech")) =>
        last.transcriptions[1] = db.transcriptions[Len(db.transcriptions)]

MissingOrEmpty(data, field) ==
    Falsy(data) \/ ~Has(data, field) \/ data.obj[field] = JStr("")

\* C8: save-transcription and simplify-text with a missing or empty text,
\* and save-text with a missing or empty content, answer 400, insert no row
\* and call Gemini never.
C8_RequiredFieldNonEmpty ==
    /\ (last.req.op \in {"save-transcription", "simplify-text"}
            /\ MissingOrEmpty(last.req.data, "text")) =>
           (last.status = 400 /\ last.inserted = 0 /\ last.ai_calls = 0)
    /\ (last.req.op = "save-text" /\ MissingOrEmpty(last.req.data, "content")) =>
           (last.status = 400 /\ last.inserted = 0 /\ last.ai_calls = 0)

\* C9: while the gateway is unavailable, describe-image, simplify-text and
\* extract-document of a file whose extension is not txt answer 400, call
\* Gemini never and write no row.
C9_UnavailableIsClientError ==
    (/\ ~gemini_model
     /\ \/ last.req.op \in {"describe-image", "simplify-text"}
        \/ /\ last.req.op = "extract-document"
           /\ RawExt(last.req.file.filename) # "txt") =>
        /\ last.status = 400
        /\ last.ai_calls = 0
        /\ last.inserted = 0

\* C10: when a response is produced, every connection its handler opened is
\* closed, and no connection is left open without a handler.
C10_ConnectionClosed ==
    /\ ~Idle => last.closed = last.opened
    /\ unclosed = [idle |-> 0, writer |-> FALSE]

====
